---- MODULE Spec2Model ----
(***************************************************************************)
(* Model of the memory pool of src/src/lib.rs: MemoryBlock (an owned       *)
(* buffer obtained from the system allocator and released in Drop) and     *)
(* MemoryPool (free_list, allocated_list, pool_size) with allocate,        *)
(* deallocate and the implicit teardown.                                   *)
(***************************************************************************)
EXTENDS Integers, Sequences, FiniteSets, TLC

\* ------------------------------------------------------------------ bounds
\* Largest budget a pool is constructed with.
MaxCapacity == 3
\* Largest size passed to allocate (sizes range over 0..MaxSize).
MaxSize == 2
\* Number of distinct addresses the system allocator can hand out.
MaxAddr == 3

Addr == 1..MaxAddr
Sizes == 0..MaxSize
\* Option<NonNull<u8>>::None / a null pointer: NonNull excludes address 0.
Null == 0

VARIABLES
    free_list,       \* VecDeque<MemoryBlock>: sequence of [ptr, size]
    allocated_list,  \* Vec<MemoryBlock>: sequence of [ptr, size]
    pool_size,       \* usize: remaining budget
    alive,           \* the MemoryPool value has not been dropped
    released,        \* system allocator: how often dealloc ran on each address
    total_capacity,  \* history: the argument of MemoryPool::new
    created,         \* history: blocks ever built by MemoryBlock::new
    outstanding,     \* history: handles returned and not yet passed to deallocate
    freed,           \* history: regions deallocated since the last allocate call
    release_order,   \* history: free addresses by their most recent deallocate
    lastCall,        \* history: the call that produced this state
    pre              \* history: free_list, allocated_list, pool_size before it

vars == <<free_list, allocated_list, pool_size, alive, released,
          total_capacity, created, outstanding, freed, release_order,
          lastCall, pre>>

\* ----------------------------------------------------------------- helpers
Ptrs(list) == {list[i].ptr : i \in 1..Len(list)}

RECURSIVE SumSizes(_)
SumSizes(list) ==
    IF list = <<>> THEN 0 ELSE Head(list).size + SumSizes(Tail(list))

Count(list, a) == Cardinality({i \in 1..Len(list) : list[i].ptr = a})

MaxSizeIn(list) ==
    IF list = <<>> THEN -1
    ELSE CHOOSE m \in {list[i].size : i \in 1..Len(list)} :
             \A i \in 1..Len(list) : list[i].size <= m

RECURSIVE SumBlocks(_)
SumBlocks(blocks) ==
    IF blocks = {} THEN 0
    ELSE LET b == CHOOSE c \in blocks : TRUE
         IN b.size + SumBlocks(blocks \ {b})

Snapshot == [free_list |-> free_list, allocated_list |-> allocated_list,
             pool_size |-> pool_size, freed |-> freed]

\* ------------------------------------------------------------- MemoryBlock
\* alloc(layout): the system allocator returns null or the address of a
\* buffer that overlaps no live buffer.  For size 0 the call is outside the
\* allocator's contract; the builds of this crate then reach posix_memalign,
\* which yields null or a unique pointer, the same two outcomes.
alloc_any(live) == {Null} \cup Addr

alloc(live) == {Null} \cup (Addr \ live)

\* A MemoryBlock::new that rounds the size up past the request.
MemoryBlock_new_rounded(size, live) ==
    {IF a = Null THEN [ptr |-> Null, size |-> size]
                 ELSE [ptr |-> a, size |-> size + 1] : a \in alloc(live)}

\* MemoryBlock::new: the outcomes of building a block of the given size;
\* Null stands for the panic of expect("Failed to allocate memory").
MemoryBlock_new(size, live) ==
    {IF a = Null THEN [ptr |-> Null, size |-> size]
                 ELSE [ptr |-> a, size |-> size] : a \in alloc(live)}

\* Addresses of buffers obtained and not yet given back to the system.
Live == {b.ptr : b \in {c \in created : released[c.ptr] = 0}}

\* -------------------------------------------------------------- MemoryPool
FirstFit_smaller(fl, size) ==
    IF \E i \in 1..Len(fl) : fl[i].size <= size
    THEN CHOOSE i \in 1..Len(fl) :
             /\ fl[i].size <= size
             /\ \A j \in 1..(i - 1) : fl[j].size > size
    ELSE 0

FirstFit_strict(fl, size) ==
    IF \E i \in 1..Len(fl) : fl[i].size > size
    THEN CHOOSE i \in 1..Len(fl) :
             /\ fl[i].size > size
             /\ \A j \in 1..(i - 1) : fl[j].size <= size
    ELSE 0

BestFit(fl, size) ==
    IF \E i \in 1..Len(fl) : fl[i].size = size
    THEN CHOOSE i \in 1..Len(fl) :
             /\ fl[i].size = size
             /\ \A j \in 1..(i - 1) : fl[j].size # size
    ELSE IF \E i \in 1..Len(fl) : fl[i].size >= size
    THEN CHOOSE i \in 1..Len(fl) :
             /\ fl[i].size >= size
             /\ \A j \in 1..(i - 1) : fl[j].size < size
    ELSE 0

\* for i in 0..len { if free_list[i].size >= size ... }: 1-based index of the
\* first fitting entry, 0 when there is none.
FirstFit(fl, size) ==
    IF \E i \in 1..Len(fl) : fl[i].size >= size
    THEN CHOOSE i \in 1..Len(fl) :
             /\ fl[i].size >= size
             /\ \A j \in 1..(i - 1) : fl[j].size < size
    ELSE 0

\* VecDeque::remove(i): the deque without its i-th entry, order kept.
RemoveAt_keep(s, i) == s

\* VecDeque::swap_remove_back in place of remove: the last entry fills the gap.
RemoveAt_swap(s, i) ==
    IF i = Len(s) THEN SubSeq(s, 1, Len(s) - 1)
    ELSE [k \in 1..(Len(s) - 1) |-> IF k = i THEN s[Len(s)] ELSE s[k]]

RemoveAt(s, i) == SubSeq(s, 1, i - 1) \o SubSeq(s, i + 1, Len(s))

\* Vec::push / VecDeque::push_back
push(s, b) == Append(s, b)
push_front(s, b) == <<b>> \o s

push_back(s, b) == Append(s, b)

\* if self.pool_size >= size
HasBudget_strict(budget, size) == budget > size

HasBudget_unchecked(budget, size) == TRUE

HasBudget(budget, size) == budget >= size

\* allocated_list.iter().position(|b| b.ptr == ptr): 1-based, 0 for None.
position_or_first(al, ptr) ==
    IF \E i \in 1..Len(al) : al[i].ptr = ptr
    THEN CHOOSE i \in 1..Len(al) :
             /\ al[i].ptr = ptr
             /\ \A j \in 1..(i - 1) : al[j].ptr # ptr
    ELSE IF Len(al) > 0 THEN 1 ELSE 0

position(al, ptr) ==
    IF \E i \in 1..Len(al) : al[i].ptr = ptr
    THEN CHOOSE i \in 1..Len(al) :
             /\ al[i].ptr = ptr
             /\ \A j \in 1..(i - 1) : al[j].ptr # ptr
    ELSE 0

\* Vec::swap_remove(i): the last entry takes the place of the i-th.
swap_remove_pop(s, i) == SubSeq(s, 1, Len(s) - 1)

swap_remove(s, i) ==
    IF i = Len(s) THEN SubSeq(s, 1, Len(s) - 1)
    ELSE [k \in 1..(Len(s) - 1) |-> IF k = i THEN s[Len(s)] ELSE s[k]]

\* MemoryPool::new(pool_size)
Init ==
    /\ pool_size \in 0..MaxCapacity
    /\ total_capacity = pool_size
    /\ free_list = <<>>
    /\ allocated_list = <<>>
    /\ alive = TRUE
    /\ released = [a \in Addr |-> 0]
    /\ created = {}
    /\ outstanding = {}
    /\ freed = {}
    /\ release_order = <<>>
    /\ lastCall = [op |-> "new", arg |-> pool_size, result |-> Null,
                   panicked |-> FALSE]
    /\ pre = [free_list |-> <<>>, allocated_list |-> <<>>,
              pool_size |-> pool_size, freed |-> {}]

\* History bookkeeping, kept apart from the operations on the two lists.
Without(order, a) == SelectSeq(order, LAMBDA x : x # a)

\* What every call records about itself.
Called(op, arg, result, panicked) ==
    /\ lastCall' = [op |-> op, arg |-> arg, result |-> result,
                    panicked |-> panicked]
    /\ pre' = Snapshot

\* An allocate whose reuse path cuts the block down to the requested size.
allocate_shrinking(size) ==
    /\ alive
    /\ freed' = {}
    /\ UNCHANGED <<alive, released, total_capacity>>
    /\ LET i == FirstFit(free_list, size) IN
       IF i # 0
       THEN LET block == [ptr |-> free_list[i].ptr, size |-> size] IN
            /\ free_list' = RemoveAt(free_list, i)
            /\ allocated_list' = push(allocated_list, block)
            /\ outstanding' = outstanding \cup {block.ptr}
            /\ release_order' = Without(release_order, block.ptr)
            /\ UNCHANGED <<pool_size, created>>
            /\ Called("allocate", size, block.ptr, FALSE)
       ELSE IF HasBudget(pool_size, size)
       THEN \E block \in MemoryBlock_new(size, Live) :
               IF block.ptr = Null
               THEN /\ UNCHANGED <<free_list, allocated_list, pool_size,
                                   created, outstanding, release_order>>
                    /\ Called("allocate", size, Null, TRUE)
               ELSE /\ allocated_list' = push(allocated_list, block)
                    /\ pool_size' = pool_size - size
                    /\ created' = created \cup {block}
                    /\ outstanding' = outstanding \cup {block.ptr}
                    /\ UNCHANGED <<free_list, release_order>>
                    /\ Called("allocate", size, block.ptr, FALSE)
       ELSE /\ UNCHANGED <<free_list, allocated_list, pool_size, created,
                           outstanding, release_order>>
            /\ Called("allocate", size, Null, FALSE)

\* An allocate whose scan pops the entries it rejects, so that a failed call
\* leaves free_list without them.
allocate_draining(size) ==
    /\ alive
    /\ freed' = {}
    /\ UNCHANGED <<alive, released, total_capacity>>
    /\ LET i == FirstFit(free_list, size) IN
       IF i # 0
       THEN LET block == free_list[i] IN
            /\ free_list' = RemoveAt(free_list, i)
            /\ allocated_list' = push(allocated_list, block)
            /\ outstanding' = outstanding \cup {block.ptr}
            /\ release_order' = Without(release_order, block.ptr)
            /\ UNCHANGED <<pool_size, created>>
            /\ Called("allocate", size, block.ptr, FALSE)
       ELSE IF HasBudget(pool_size, size)
       THEN \E block \in MemoryBlock_new(size, Live) :
               IF block.ptr = Null
               THEN /\ UNCHANGED <<free_list, allocated_list, pool_size,
                                   created, outstanding, release_order>>
                    /\ Called("allocate", size, Null, TRUE)
               ELSE /\ allocated_list' = push(allocated_list, block)
                    /\ pool_size' = pool_size - size
                    /\ created' = created \cup {block}
                    /\ outstanding' = outstanding \cup {block.ptr}
                    /\ UNCHANGED <<free_list, release_order>>
                    /\ Called("allocate", size, block.ptr, FALSE)
       ELSE /\ free_list' = <<>>
            /\ release_order' = <<>>
            /\ UNCHANGED <<allocated_list, pool_size, created, outstanding>>
            /\ Called("allocate", size, Null, FALSE)

\* MemoryPool::allocate(size)
allocate(size) ==
    /\ alive
    /\ freed' = {}
    /\ UNCHANGED <<alive, released, total_capacity>>
    /\ LET i == FirstFit(free_list, size) IN
       IF i # 0
       THEN \* reuse path
            LET block == free_list[i] IN
            /\ free_list' = RemoveAt(free_list, i)
            /\ allocated_list' = push(allocated_list, block)
            /\ outstanding' = outstanding \cup {block.ptr}
            /\ release_order' = Without(release_order, block.ptr)
            /\ UNCHANGED <<pool_size, created>>
            /\ Called("allocate", size, block.ptr, FALSE)
       ELSE IF HasBudget(pool_size, size)
       THEN \* growth path
            \E block \in MemoryBlock_new(size, Live) :
               IF block.ptr = Null
               THEN /\ UNCHANGED <<free_list, allocated_list, pool_size,
                                   created, outstanding, release_order>>
                    /\ Called("allocate", size, Null, TRUE)
               ELSE /\ allocated_list' = push(allocated_list, block)
                    /\ pool_size' = pool_size - size
                    /\ created' = created \cup {block}
                    /\ outstanding' = outstanding \cup {block.ptr}
                    /\ UNCHANGED <<free_list, release_order>>
                    /\ Called("allocate", size, block.ptr, FALSE)
       ELSE \* None
            /\ UNCHANGED <<free_list, allocated_list, pool_size, created,
                           outstanding, release_order>>
            /\ Called("allocate", size, Null, FALSE)

\* deallocate that drops the block, giving its memory back to the system,
\* instead of keeping it for reuse.
deallocate_releasing(ptr) ==
    /\ alive
    /\ outstanding' = outstanding \ {ptr}
    /\ UNCHANGED <<pool_size, alive, total_capacity, created, free_list,
                   freed, release_order>>
    /\ Called("deallocate", ptr, Null, FALSE)
    /\ LET index == position(allocated_list, ptr) IN
       IF index # 0
       THEN /\ allocated_list' = swap_remove(allocated_list, index)
            /\ released' = [released EXCEPT ![ptr] = @ + 1]
       ELSE UNCHANGED <<allocated_list, released>>

\* deallocate that hands the block's bytes back to the budget.
deallocate_restoring(ptr) ==
    /\ alive
    /\ outstanding' = outstanding \ {ptr}
    /\ UNCHANGED <<alive, released, total_capacity, created>>
    /\ Called("deallocate", ptr, Null, FALSE)
    /\ LET index == position(allocated_list, ptr) IN
       IF index # 0
       THEN LET block == allocated_list[index] IN
            /\ allocated_list' = swap_remove(allocated_list, index)
            /\ free_list' = push_back(free_list, block)
            /\ pool_size' = pool_size + block.size
            /\ freed' = freed \cup {[ptr |-> block.ptr, size |-> block.size,
                                     older |-> MaxSizeIn(free_list)]}
            /\ release_order' = Append(Without(release_order, ptr), ptr)
       ELSE UNCHANGED <<free_list, allocated_list, freed, pool_size,
                       release_order>>

\* MemoryPool::deallocate(ptr)
deallocate(ptr) ==
    /\ alive
    /\ outstanding' = outstanding \ {ptr}
    /\ UNCHANGED <<pool_size, alive, released, total_capacity, created>>
    /\ Called("deallocate", ptr, Null, FALSE)
    /\ LET index == position(allocated_list, ptr) IN
       IF index # 0
       THEN LET block == allocated_list[index] IN
            /\ allocated_list' = swap_remove(allocated_list, index)
            /\ free_list' = push_back(free_list, block)
            /\ freed' = freed \cup {[ptr |-> block.ptr, size |-> block.size,
                                     older |-> MaxSizeIn(free_list)]}
            /\ release_order' = Append(Without(release_order, ptr), ptr)
       ELSE UNCHANGED <<free_list, allocated_list, freed, release_order>>

\* A teardown that releases only the blocks of free_list.
drop_free_only ==
    /\ alive
    /\ alive' = FALSE
    /\ released' = [a \in Addr |-> released[a] + Count(free_list, a)]
    /\ free_list' = <<>>
    /\ allocated_list' = <<>>
    /\ Called("drop", 0, Null, FALSE)
    /\ UNCHANGED <<pool_size, total_capacity, created, outstanding, freed,
                   release_order>>

\* Dropping the MemoryPool drops free_list and allocated_list, and with them
\* every MemoryBlock they own; MemoryBlock::drop calls dealloc on its ptr.
drop ==
    /\ alive
    /\ alive' = FALSE
    /\ released' = [a \in Addr |->
                      released[a] + Count(free_list, a)
                                  + Count(allocated_list, a)]
    /\ free_list' = <<>>
    /\ allocated_list' = <<>>
    /\ Called("drop", 0, Null, FALSE)
    /\ UNCHANGED <<pool_size, total_capacity, created, outstanding, freed,
                   release_order>>

Next ==
    \/ \E size \in Sizes : allocate(size)
    \/ \E ptr \in Addr : deallocate(ptr)
    \/ drop

Spec == Init /\ [][Next]_vars

TypeOK ==
    /\ pool_size \in Int
    /\ alive \in BOOLEAN
    /\ Ptrs(free_list) \subseteq Addr
    /\ Ptrs(allocated_list) \subseteq Addr
    /\ outstanding \subseteq Addr

\* ------------------------------------------------------------------ claims
Regions(snap) == Ptrs(snap.free_list) \cup Ptrs(snap.allocated_list)

\* The call that produced this state was allocate and returned Some(ptr).
AllocateSucceeded == lastCall.op = "allocate" /\ lastCall.result # Null

\* An entry of the free list, as it was before the call, fits the request.
FitBefore ==
    \E i \in 1..Len(pre.free_list) : pre.free_list[i].size >= lastCall.arg

\* C1: in every reachable state no address is in free_list and in
\* allocated_list at once.
C1_Disjoint == Ptrs(free_list) \cap Ptrs(allocated_list) = {}

C1_Witness ==
    /\ AllocateSucceeded
    /\ lastCall.result \in Ptrs(pre.free_list)
    /\ free_list # <<>>
    /\ Len(allocated_list) >= 2

\* C2: allocated_list never holds two entries with the same address, and a
\* successful allocate never returns an address that was active before it.
C2_NoDoubleGrant ==
    /\ \A i, j \in 1..Len(allocated_list) :
           allocated_list[i].ptr = allocated_list[j].ptr => i = j
    /\ AllocateSucceeded => lastCall.result \notin Ptrs(pre.allocated_list)

C2_Witness ==
    /\ AllocateSucceeded
    /\ lastCall.result \notin Regions(pre)
    /\ pre.allocated_list # <<>>
    /\ pre.free_list # <<>>

\* C3 as stated: a region of size S deallocated since the last allocate call
\* is the one returned by the next allocate(S') with S' <= S.
C3_Original ==
    lastCall.op = "allocate" =>
        \A f \in pre.freed :
            lastCall.arg <= f.size => lastCall.result = f.ptr

\* C3 amended: ... provided no entry that free_list already held when the
\* region was deallocated has size >= S'.
C3_Reuse ==
    lastCall.op = "allocate" =>
        \A f \in pre.freed :
            (lastCall.arg <= f.size /\ f.older < lastCall.arg)
                => lastCall.result = f.ptr

C3_Witness ==
    /\ lastCall.op = "allocate"
    /\ \E f \in pre.freed :
          /\ lastCall.arg <= f.size
          /\ f.older < lastCall.arg
          /\ f.older >= 0
          /\ lastCall.result = f.ptr
    /\ Cardinality(pre.freed) >= 2

\* C4: allocate returns None exactly when no entry of free_list has
\* size >= size and pool_size < size.
C4_Exhaustion ==
    lastCall.op = "allocate" =>
        ((lastCall.result = Null /\ ~lastCall.panicked)
            <=> (~FitBefore /\ pre.pool_size < lastCall.arg))

C4_Witness ==
    /\ lastCall.op = "allocate"
    /\ lastCall.result = Null
    /\ ~lastCall.panicked
    /\ free_list # <<>>
    /\ pool_size > 0

\* C5: pool_size never increases, and it changes only in an allocate call
\* that creates a fresh region; reuse, a failed allocate and deallocate
\* leave it unchanged.
C5_BudgetMonotone ==
    /\ pool_size <= pre.pool_size
    /\ pool_size # pre.pool_size =>
          /\ AllocateSucceeded
          /\ lastCall.result \notin Regions(pre)
          /\ ~FitBefore

C5_Witness ==
    /\ lastCall.op = "deallocate"
    /\ lastCall.arg \in Ptrs(pre.allocated_list)
    /\ pool_size = pre.pool_size
    /\ pool_size < total_capacity
    /\ free_list[Len(free_list)].size > 0

\* C6: deallocate of an address that is not in allocated_list changes none
\* of free_list, allocated_list and pool_size, and does not fail.
C6_UnknownHandleNoOp ==
    (lastCall.op = "deallocate"
        /\ lastCall.arg \notin Ptrs(pre.allocated_list)) =>
        /\ free_list = pre.free_list
        /\ allocated_list = pre.allocated_list
        /\ pool_size = pre.pool_size
        /\ ~lastCall.panicked

C6_Witness ==
    /\ lastCall.op = "deallocate"
    /\ lastCall.arg \notin Ptrs(pre.allocated_list)
    /\ lastCall.arg \in Ptrs(free_list)
    /\ allocated_list # <<>>

\* C7: when some entry of free_list fits, allocate returns the address of
\* the fitting entry nearest the front, whatever later entries and the
\* budget are, and creates no region.
C7_FirstFitOldest ==
    (lastCall.op = "allocate" /\ FitBefore) =>
        \E i \in 1..Len(pre.free_list) :
            /\ pre.free_list[i].size >= lastCall.arg
            /\ \A j \in 1..(i - 1) : pre.free_list[j].size < lastCall.arg
            /\ lastCall.result = pre.free_list[i].ptr
            /\ Regions(Snapshot) = Regions(pre)
            /\ pool_size = pre.pool_size

C7_Witness ==
    /\ lastCall.op = "allocate"
    /\ Len(pre.free_list) >= 2
    /\ pre.free_list[1].size > lastCall.arg
    /\ pre.free_list[2].size = lastCall.arg
    /\ lastCall.arg > 0
    /\ lastCall.result = pre.free_list[1].ptr

\* C8: once the pool is destroyed, every region it ever created has been
\* released exactly once, and nothing else has been released.
C8_Teardown ==
    ~alive =>
        /\ \A b \in created : released[b.ptr] = 1
        /\ \A a \in Addr \ {b.ptr : b \in created} : released[a] = 0

C8_Witness ==
    /\ ~alive
    /\ pre.free_list # <<>>
    /\ pre.allocated_list # <<>>
    /\ Cardinality(created) >= 3

\* C9: while the pool exists, every handle returned by allocate and not yet
\* passed to deallocate is the address of exactly one entry of
\* allocated_list and of no entry of free_list.
C9_HandleValidity ==
    alive =>
        \A h \in outstanding :
            /\ Count(allocated_list, h) = 1
            /\ Count(free_list, h) = 0

C9_Witness ==
    /\ alive
    /\ Cardinality(outstanding) >= 2
    /\ lastCall.op = "deallocate"
    /\ lastCall.arg \in Ptrs(pre.allocated_list)
    /\ Len(free_list) >= 1

\* C10: while the pool exists, pool_size plus the sizes of all regions in
\* free_list and allocated_list equals the capacity the pool was created
\* with; the bytes ever created never exceed it and pool_size is never
\* negative.
C10_CapacityCap ==
    /\ alive =>
          pool_size + SumSizes(free_list) + SumSizes(allocated_list)
              = total_capacity
    /\ SumBlocks(created) <= total_capacity
    /\ pool_size >= 0

C10_Witness ==
    /\ alive
    /\ pool_size = 0
    /\ total_capacity > 0
    /\ free_list # <<>>
    /\ allocated_list # <<>>

Entries(list) == {list[i] : i \in 1..Len(list)}

\* The call that produced this state was allocate and took the growth branch:
\* nothing in free_list fitted and the budget covered the request.
GrowthCase ==
    /\ lastCall.op = "allocate"
    /\ ~FitBefore
    /\ pre.pool_size >= lastCall.arg

\* C11: while the pool exists no region has been released and every region
\* ever created is in free_list or allocated_list; memory is released only
\* by the teardown, after which no call hands anything out.
C11_NoEarlyRelease ==
    /\ alive =>
          /\ \A a \in Addr : released[a] = 0
          /\ {b.ptr : b \in created} = Regions(Snapshot)
    /\ (\E a \in Addr : released[a] > 0) =>
          /\ ~alive
          /\ lastCall.op = "drop"

C11_Witness ==
    /\ alive
    /\ lastCall.op = "deallocate"
    /\ lastCall.arg \in Ptrs(pre.allocated_list)
    /\ Cardinality(created) >= 2
    /\ allocated_list # <<>>

GrowthEffect ==
    /\ lastCall.result # Null
    /\ lastCall.result \notin Regions(pre)
    /\ allocated_list = Append(pre.allocated_list,
                               [ptr |-> lastCall.result,
                                size |-> lastCall.arg])
    /\ pool_size = pre.pool_size - lastCall.arg
    /\ free_list = pre.free_list

\* C13 as stated: whenever nothing in free_list fits and pool_size covers the
\* request, allocate adds one region of exactly that size at a new address,
\* lowers pool_size by it, leaves free_list alone and returns the address.
C13_Original == GrowthCase => GrowthEffect

\* C13 amended: ... unless the system allocator fails to supply the memory,
\* in which case MemoryBlock::new panics and the pool is unchanged.
C13_Growth ==
    GrowthCase =>
        IF lastCall.panicked
        THEN /\ free_list = pre.free_list
             /\ allocated_list = pre.allocated_list
             /\ pool_size = pre.pool_size
        ELSE GrowthEffect

C13_Witness ==
    /\ GrowthCase
    /\ ~lastCall.panicked
    /\ lastCall.arg > 0
    /\ pre.free_list # <<>>
    /\ pre.allocated_list # <<>>
    /\ pool_size > 0

\* C14: a reusing allocate moves the chosen block whole, address and size
\* unchanged, from free_list to the end of allocated_list, leaves pool_size
\* and the number of regions unchanged, and every region keeps the size it
\* was created with.
C14_ReuseFrame ==
    /\ (lastCall.op = "allocate" /\ FitBefore) =>
          \E i \in 1..Len(pre.free_list) :
              /\ pre.free_list[i].ptr = lastCall.result
              /\ allocated_list
                    = Append(pre.allocated_list, pre.free_list[i])
              /\ free_list = SubSeq(pre.free_list, 1, i - 1)
                             \o SubSeq(pre.free_list, i + 1,
                                       Len(pre.free_list))
              /\ pool_size = pre.pool_size
              /\ Len(free_list) + Len(allocated_list)
                    = Len(pre.free_list) + Len(pre.allocated_list)
    /\ alive => Entries(free_list) \cup Entries(allocated_list) = created

C14_Witness ==
    /\ lastCall.op = "allocate"
    /\ lastCall.arg > 0
    /\ \E i \in 1..Len(pre.free_list) :
          /\ pre.free_list[i].ptr = lastCall.result
          /\ pre.free_list[i].size > lastCall.arg
          /\ allocated_list[Len(allocated_list)] = pre.free_list[i]
    /\ pre.pool_size >= lastCall.arg

\* C15: an allocate that returns None leaves free_list, allocated_list and
\* pool_size exactly as they were.
C15_FailedAllocateNoEffect ==
    (lastCall.op = "allocate" /\ lastCall.result = Null
        /\ ~lastCall.panicked) =>
        /\ free_list = pre.free_list
        /\ allocated_list = pre.allocated_list
        /\ pool_size = pre.pool_size

C15_Witness ==
    /\ lastCall.op = "allocate"
    /\ lastCall.result = Null
    /\ ~lastCall.panicked
    /\ Len(free_list) >= 2
    /\ allocated_list # <<>>

\* C16: after a successful allocate(n) the region behind the returned
\* handle has size >= n, exactly n when it is fresh; and no call changes the
\* region behind a handle that stays in allocated_list, so this holds for as
\* long as the handle is out.
C16_SufficientSize ==
    /\ AllocateSucceeded =>
          \E i \in 1..Len(allocated_list) :
              /\ allocated_list[i].ptr = lastCall.result
              /\ allocated_list[i].size >= lastCall.arg
              /\ lastCall.result \notin Regions(pre)
                    => allocated_list[i].size = lastCall.arg
    /\ alive =>
          \A b \in Entries(pre.allocated_list) :
              b.ptr \in Ptrs(allocated_list) => b \in Entries(allocated_list)

C16_Witness ==
    /\ AllocateSucceeded
    /\ lastCall.arg > 0
    /\ \E i \in 1..Len(allocated_list) :
          /\ allocated_list[i].ptr = lastCall.result
          /\ allocated_list[i].size > lastCall.arg
    /\ \E b \in Entries(pre.allocated_list) : b \in Entries(allocated_list)

\* C17: after an active region of size S was deallocated, the next allocate
\* call, if it asks for S' with 0 < S' <= S, returns a block of free_list and
\* never None, also when pool_size is 0.
C17_FreedReusable ==
    lastCall.op = "allocate" =>
        \A f \in pre.freed :
            (0 < lastCall.arg /\ lastCall.arg <= f.size) =>
                /\ lastCall.result # Null
                /\ ~lastCall.panicked
                /\ lastCall.result \in Ptrs(pre.free_list)

C17_Witness ==
    /\ lastCall.op = "allocate"
    /\ pre.pool_size = 0
    /\ \E f \in pre.freed :
          /\ 0 < lastCall.arg
          /\ lastCall.arg <= f.size
          /\ lastCall.result # f.ptr
          /\ lastCall.result # Null

\* C18: no region of size 0 is ever created, so none is ever in free_list
\* or allocated_list.
C18_NoZeroRegion ==
    /\ \A b \in created : b.size > 0
    /\ \A b \in Entries(free_list) \cup Entries(allocated_list) : b.size > 0
====
